---- MODULE Spec2Model ----
(***************************************************************************)
(* Building extraction and face classification of wie-hoch-dachtraufe:     *)
(* process_buildings_from_zips (swissbuildings3d_etl.py) driven by the     *)
(* tile loop of render_content (app.py).                                   *)
(*                                                                         *)
(* Lengths are integers in centimetres: 1 m = 100, the 10 cm footprint     *)
(* threshold = 10, the 9999 m start value of the minimum search = 999900.  *)
(* A ring is a sequence of points <<x, y, z>>; rings are referred to by    *)
(* name and RingPts gives their coordinates.                               *)
(***************************************************************************)
EXTENDS Integers, Sequences, FiniteSets, TLC

VARIABLES
    mask,            \* mask_multi_polygons: "None", "Empty" or "Rect"
    layer_types,     \* parameter layer_types: << >> (None) or <<labels>>
    entity_handles,  \* parameter entity_handles: << >> (None) or <<handles>>
    pc,              \* "app" (between tiles), "proc" (feature loop), "rows"
                     \* (table loop), "done", "aborted" (AssertionError)
    tiles_done,      \* tiles of filenames_tuples already processed
    seen,            \* features read so far in the whole run
    building_counter,\* swissbuildings3d_etl.py:171
    skip_count,      \* swissbuildings3d_etl.py:176
    layer_lut,       \* ordered mapping: sequence of [layer, meshes]
    traufen,         \* app.py:79, the rows of the DataFrame
    all_meshes,      \* app.py:80
    row_cursor,      \* meshes of the current result already put in traufen
    emitted,         \* [feature, mesh] of the current call in processing order
    last             \* what the last loop iteration did with its feature

vars == << mask, layer_types, entity_handles, pc, tiles_done, seen,
           building_counter, skip_count, layer_lut, traufen, all_meshes,
           row_cursor, emitted, last >>

----------------------------------------------------------------------------
(* Bounds of the model *)

MaxFeatures == 2
MaxTiles == 2

----------------------------------------------------------------------------
(* Values *)

\* An optional value: Python's None is << >>, a present value v is << v >>
NoneVal == << >>
Some(v) == << v >>

\* dict.get(key): None when the key is missing
GetOpt(d, key) == IF key \in DOMAIN d THEN Some(d[key]) ELSE NoneVal

\* dict.get(key, default)
Get(d, key, default) == IF key \in DOMAIN d THEN d[key] ELSE default

\* Python truthiness of an optional string: None and "" are falsy
Truthy(v) == v /= NoneVal /\ v[1] /= ""

Abs(n) == IF n < 0 THEN 0 - n ELSE n

RECURSIVE Gcd(_, _)
Gcd(a, b) == IF b = 0 THEN a ELSE Gcd(b, a % b)

SeqMin(s, start) ==
    LET F[i \in 0..Len(s)] ==
            IF i = 0 THEN start
            ELSE IF s[i] < F[i - 1] THEN s[i] ELSE F[i - 1]
    IN  F[Len(s)]

RECURSIVE Flatten(_)
Flatten(ss) == IF ss = << >> THEN << >> ELSE Head(ss) \o Flatten(Tail(ss))

----------------------------------------------------------------------------
(* The rings the feature source can deliver (centimetres) *)

RingNames ==
    { "sloped", "wall", "ground", "ground9", "ground10", "ground11",
      "flat", "pit", "vertical", "vertical_out", "outside", "straddle",
      "zeroish", "high", "bowtie", "hole", "line" }

RingPts(r) ==
    CASE r = "sloped"       -> << <<100, 100, 500>>, <<200, 100, 500>>, <<100, 400, 900>> >>
      [] r = "wall"         -> << <<100, 100, 0>>, <<200, 100, 0>>, <<100, 102, 100>> >>
      [] r = "ground"       -> << <<100, 100, 0>>, <<200, 100, 0>>, <<100, 200, 0>> >>
      [] r = "ground9"      -> << <<100, 100, 0>>, <<200, 100, 0>>, <<100, 200, 9>> >>
      [] r = "ground10"     -> << <<100, 100, 0>>, <<200, 100, 0>>, <<100, 200, 10>> >>
      [] r = "ground11"     -> << <<100, 100, 0>>, <<200, 100, 0>>, <<100, 200, 11>> >>
      [] r = "flat"         -> << <<100, 100, 600>>, <<200, 100, 600>>, <<200, 200, 600>>, <<100, 200, 600>> >>
      [] r = "pit"          -> << <<100, 100, -100>>, <<200, 100, -100>>, <<100, 200, -100>> >>
      [] r = "vertical"     -> << <<100, 100, 0>>, <<200, 100, 0>>, <<200, 100, 300>> >>
      [] r = "vertical_out" -> << <<900, 500, 0>>, <<1200, 500, 0>>, <<1200, 500, 300>> >>
      [] r = "outside"      -> << <<2000, 2000, 500>>, <<3000, 2000, 500>>, <<2000, 3000, 900>> >>
      [] r = "straddle"     -> << <<900, 900, 500>>, <<1100, 900, 500>>, <<900, 1000, 700>> >>
      [] r = "zeroish"      -> << <<0, 0, 50>>, <<100, 0, 50>>, <<0, 100, 50>> >>
      [] r = "high"         -> << <<100, 100, 1000000>>, <<200, 100, 1000000>>, <<100, 200, 1000000>> >>
      [] r = "bowtie"       -> << <<100, 100, 600>>, <<300, 100, 600>>, <<100, 200, 600>>, <<200, 300, 600>> >>
      [] r = "hole"         -> << <<120, 110, 0>>, <<150, 110, 0>>, <<120, 140, 0>> >>
      [] r = "line"         -> << <<2000, 100, 0>>, <<2500, 100, 0>> >>

\* mask_multi_polygons.bounds when mask = "Rect": the region of interest is
\* the square [0, 10 m] x [0, 10 m]; (minx, miny, maxx, maxy)
MaskBounds == << 0, 0, 1000, 1000 >>

----------------------------------------------------------------------------
(* Plane geometry of shapely, on ring coordinates *)

\* Twice the signed area of the triangle a, b, c in the x-y plane
Orient(a, b, c) == (b[1] - a[1]) * (c[2] - a[2]) - (b[2] - a[2]) * (c[1] - a[1])

Sign(n) == IF n > 0 THEN 1 ELSE IF n < 0 THEN -1 ELSE 0

\* segments a-b and c-d cross in one interior point
Crosses(a, b, c, d) ==
    /\ Sign(Orient(a, b, c)) * Sign(Orient(a, b, d)) < 0
    /\ Sign(Orient(c, d, a)) * Sign(Orient(c, d, b)) < 0

\* the i-th edge of the closed ring
EdgeFrom(pts, i) == pts[i]
EdgeTo(pts, i) == pts[(i % Len(pts)) + 1]

\* twice the signed area enclosed by the ring (shoelace)
Area2(pts) ==
    LET F[i \in 0..Len(pts)] ==
            IF i = 0 THEN 0
            ELSE F[i - 1] + EdgeFrom(pts, i)[1] * EdgeTo(pts, i)[2]
                          - EdgeTo(pts, i)[1] * EdgeFrom(pts, i)[2]
    IN  F[Len(pts)]

\* Polygon(...).is_valid: a ring that encloses area and does not cross itself
IsValid(r) ==
    LET pts == RingPts(r) IN
    /\ Len(pts) >= 3
    /\ \A i, j \in 1..Len(pts) :
           i < j => ~Crosses(EdgeFrom(pts, i), EdgeTo(pts, i),
                             EdgeFrom(pts, j), EdgeTo(pts, j))
    /\ Area2(pts) /= 0

\* poly.within(mask): the mask is convex, so a valid polygon lies within it
\* exactly when all its vertices lie in the closed mask; nothing lies within
\* an empty mask
Within(r, m) ==
    /\ m = "Rect"
    /\ \A i \in 1..Len(RingPts(r)) :
          /\ MaskBounds[1] <= RingPts(r)[i][1] /\ RingPts(r)[i][1] <= MaskBounds[3]
          /\ MaskBounds[2] <= RingPts(r)[i][2] /\ RingPts(r)[i][2] <= MaskBounds[4]

----------------------------------------------------------------------------
(* Face normals (pyvista compute_normals on the one polygon cell of a ring) *)

Cross(a, b) == << a[2] * b[3] - a[3] * b[2],
                  a[3] * b[1] - a[1] * b[3],
                  a[1] * b[2] - a[2] * b[1] >>

Minus(a, b) == << a[1] - b[1], a[2] - b[2], a[3] - b[3] >>

\* the polygon's area vector: the sum of the cross products of the fan of
\* triangles from the first point; it has the direction of the cell normal
AreaVector(pts) ==
    LET F[i \in 1..(Len(pts) - 1)] ==
            IF i = 1 THEN << 0, 0, 0 >>
            ELSE LET c == Cross(Minus(pts[i], pts[1]), Minus(pts[i + 1], pts[1]))
                 IN  << F[i - 1][1] + c[1], F[i - 1][2] + c[2], F[i - 1][3] + c[3] >>
    IN  F[Len(pts) - 1]

\* the same direction with the common factor of the components removed
Direction(n) ==
    LET g == Gcd(Gcd(Abs(n[1]), Abs(n[2])), Abs(n[3]))
    IN  IF g = 0 THEN n ELSE << n[1] \div g, n[2] \div g, n[3] \div g >>

FaceNormal(r) == Direction(AreaVector(RingPts(r)))

NormSq(n) == n[1] * n[1] + n[2] * n[2] + n[3] * n[3]

\* np.all(z_components < 0.1) for the single face: |nz| / |n| < 1/10; a
\* degenerate cell has the normal (0, 0, 0), whose z component 0 is < 0.1
IsVertical(r) ==
    LET n == FaceNormal(r)
    IN  NormSq(n) = 0 \/ 100 * n[3] * n[3] < NormSq(n)

\* np.any(z_components > 0.95): |nz| / |n| > 19/20
IsHorizontal(r) ==
    LET n == FaceNormal(r)
    IN  NormSq(n) > 0 /\ 400 * n[3] * n[3] > 361 * NormSq(n)

\* np.all(np.abs(z_coords - min_elevation_feature) < 0.1); AnyNear is the
\* variant with np.any
NearFloor == 10
AnyNear(r, min_elevation_feature) ==
    \E i \in 1..Len(RingPts(r)) :
        Abs(RingPts(r)[i][3] - min_elevation_feature) < NearFloor

AllNear(r, min_elevation_feature) ==
    \A i \in 1..Len(RingPts(r)) :
        Abs(RingPts(r)[i][3] - min_elevation_feature) < NearFloor

\* a variant of IsWall with the threshold 0.01
IsWallTight(r) ==
    LET n == FaceNormal(r)
    IN  NormSq(n) = 0 \/ 10000 * n[3] * n[3] < NormSq(n)

\* the two "continue" of the face filter
IsWall(r) == IsVertical(r)
IsFootprint(r, min_elevation_feature) ==
    IsHorizontal(r) /\ AllNear(r, min_elevation_feature)

----------------------------------------------------------------------------
(* The records of the feature source (fiona): geometry and properties *)

Polygon(rings) == [type |-> "Polygon", coordinates |-> rings]
MultiPolygon(polys) == [type |-> "MultiPolygon", coordinates |-> polys]
LineString(r) == [type |-> "LineString", coordinates |-> r]
GeometryCollection(gs) == [type |-> "GeometryCollection", geometries |-> gs]

Geometries ==
    { \* a prism roof: sloped face, near-vertical wall, ground face
      MultiPolygon(<< <<"sloped">>, <<"wall">>, <<"ground">> >>),
      Polygon(<< "sloped" >>),
      Polygon(<< "ground" >>),
      Polygon(<< "outside" >>),
      \* a building across the border of the region
      MultiPolygon(<< <<"sloped">>, <<"straddle">> >>),
      \* an exactly vertical ring outside of the region
      MultiPolygon(<< <<"sloped">>, <<"vertical_out">> >>),
      Polygon(<< "vertical" >>),
      MultiPolygon(<< <<"vertical">>, <<"flat">> >>),
      GeometryCollection(<< Polygon(<< "flat", "hole" >>),
                            MultiPolygon(<< <<"sloped">>, <<"ground11">> >>),
                            LineString("line") >>),
      LineString("line"),
      MultiPolygon(<< <<"sloped">>, <<"zeroish">> >>),
      Polygon(<< "high" >>),
      MultiPolygon(<< <<"pit">>, <<"ground">> >>),
      MultiPolygon(<< <<"flat">>, <<"bowtie">>, <<"ground">> >>),
      MultiPolygon(<< <<"ground9">>, <<"ground10">>, <<"ground11">> >>) }

Properties ==
    { [Layer |-> "roof", EntityHand |-> "A1"],
      [Layer |-> "roof"],
      [EntityHand |-> ""],
      [Layer |-> "tree", EntityHand |-> "building_0"] }

\* every geometry as a roof with a handle, and three plain geometries with
\* every combination of properties
PlainGeometries ==
    { Polygon(<< "sloped" >>), Polygon(<< "ground" >>), Polygon(<< "outside" >>) }

Features ==
    [geometry : Geometries, properties : { [Layer |-> "roof", EntityHand |-> "A1"] }]
    \cup [geometry : PlainGeometries, properties : Properties]

\* the arguments of a call: app.py:82 passes the region and no selection
Calls ==
    { [mask |-> "Rect", layer_types |-> << >>, entity_handles |-> << >>],
      [mask |-> "Rect", layer_types |-> << "roof" >>, entity_handles |-> << >>],
      [mask |-> "Rect", layer_types |-> << >>, entity_handles |-> << "A1" >>],
      [mask |-> "Empty", layer_types |-> << >>, entity_handles |-> << >>],
      [mask |-> "None", layer_types |-> << >>, entity_handles |-> << >>] }

----------------------------------------------------------------------------
(* The body of the feature loop, statement by statement *)

\* lines 193-200: the layer and handle selection
FeatureLayerType(f) == Get(f.properties, "Layer", "n/a")

NotSelected(f) ==
    \/ /\ layer_types /= << >>
       /\ \A i \in 1..Len(layer_types) : FeatureLayerType(f) /= layer_types[i]
    \/ /\ entity_handles /= << >>
       /\ \A i \in 1..Len(entity_handles) :
             GetOpt(f.properties, "EntityHand") /= Some(entity_handles[i])

\* lines 203-208
SupportedKinds == { "Polygon", "MultiPolygon", "GeometryCollection" }
UnsupportedGeometry(f) == f.geometry.type \notin SupportedKinds

\* all coordinates of a geometry, as geometry.shape(geom) sees them
SimplePts(g) ==
    CASE g.type = "Polygon" ->
            Flatten([i \in 1..Len(g.coordinates) |-> RingPts(g.coordinates[i])])
      [] g.type = "MultiPolygon" ->
            Flatten([i \in 1..Len(g.coordinates) |->
                Flatten([j \in 1..Len(g.coordinates[i]) |->
                    RingPts(g.coordinates[i][j])])])
      [] OTHER -> RingPts(g.coordinates)

GeomPts(g) ==
    IF g.type = "GeometryCollection"
    THEN Flatten([i \in 1..Len(g.geometries) |-> SimplePts(g.geometries[i])])
    ELSE SimplePts(g)

\* geom_shape.bounds: (minx, miny, maxx, maxy)
Bounds(g) ==
    LET pts == GeomPts(g)
        xs == { pts[i][1] : i \in 1..Len(pts) }
        ys == { pts[i][2] : i \in 1..Len(pts) }
        Least(S) == CHOOSE v \in S : \A w \in S : v <= w
        Most(S) == CHOOSE v \in S : \A w \in S : v >= w
    IN  << Least(xs), Least(ys), Most(xs), Most(ys) >>

\* bool(mask_multi_polygons): a shapely geometry is falsy when it is empty
MaskTruthy == mask = "Rect"

\* a variant of OutsideBounds that joins the four comparisons with "and"
OutsideBoundsAnd(f) ==
    LET geom_bounds == Bounds(f.geometry)
        mask_bounds == MaskBounds
    IN  /\ MaskTruthy
        /\ geom_bounds[3] < mask_bounds[1]
        /\ geom_bounds[1] > mask_bounds[3]
        /\ geom_bounds[4] < mask_bounds[2]
        /\ geom_bounds[2] > mask_bounds[4]

\* lines 210-221
OutsideBounds(f) ==
    LET geom_bounds == Bounds(f.geometry)
        mask_bounds == MaskBounds
    IN  /\ MaskTruthy
        /\ \/ geom_bounds[3] < mask_bounds[1]
           \/ geom_bounds[1] > mask_bounds[3]
           \/ geom_bounds[4] < mask_bounds[2]
           \/ geom_bounds[2] > mask_bounds[4]

\* a variant of Polygons that takes only the Polygon members of a collection
PolygonsOfPolygonMembers(geom) ==
    IF geom.type = "GeometryCollection"
    THEN Flatten([i \in 1..Len(geom.geometries) |->
            IF geom.geometries[i].type = "Polygon"
            THEN << geom.geometries[i].coordinates >>
            ELSE << >>])
    ELSE IF geom.type = "MultiPolygon" THEN geom.coordinates
    ELSE << geom.coordinates >>

\* lines 225-235: the polygons of the geometry, each <<exterior, holes...>>
Polygons(geom) ==
    IF geom.type = "GeometryCollection"
    THEN Flatten([i \in 1..Len(geom.geometries) |->
            LET single_geom == geom.geometries[i]
            IN  IF single_geom.type = "MultiPolygon" THEN single_geom.coordinates
                ELSE IF single_geom.type = "Polygon"
                     THEN << single_geom.coordinates >>
                     ELSE << >>])
    ELSE IF geom.type = "MultiPolygon" THEN geom.coordinates
    ELSE << geom.coordinates >>

\* lines 238-248: the polygons a within test is run on, those it keeps, and
\* the flag of a test that failed
TestedPolygons(polygons) == SelectSeq(polygons, LAMBDA p : IsValid(p[1]))

\* a variant of ValidPolygons without the is_valid test
ValidPolygonsAll(polygons) ==
    SelectSeq(polygons, LAMBDA p : Within(p[1], mask))

ValidPolygons(polygons) ==
    SelectSeq(polygons, LAMBDA p : IsValid(p[1]) /\ Within(p[1], mask))

\* a variant of FoundPointsOutside that never sets the flag
FoundPointsOutsideNever(polygons) == FALSE

FoundPointsOutside(polygons) ==
    \E i \in 1..Len(polygons) :
        IsValid(polygons[i][1]) /\ ~Within(polygons[i][1], mask)

\* line 248: polygons = valid_polygons, under "mask is not None"
MaskedPolygons(f) ==
    IF mask /= "None" THEN ValidPolygons(Polygons(f.geometry))
    ELSE Polygons(f.geometry)

\* lines 250-253
NotInsideMask(f) ==
    /\ mask /= "None"
    /\ \/ MaskedPolygons(f) = << >>
       \/ FoundPointsOutside(Polygons(f.geometry))

\* lines 255-260
StartElevation == 999900
MinElevationFeature(polygons) ==
    SeqMin(Flatten([i \in 1..Len(polygons) |->
               [j \in 1..Len(RingPts(polygons[i][1])) |->
                   RingPts(polygons[i][1])[j][3]]]),
           StartElevation)

\* line 276: assert |x| + |y| + |z| > 1
UnitLength == 100
AssertHolds(pt) == Abs(pt[1]) + Abs(pt[2]) + Abs(pt[3]) > UnitLength

AssertionFails(polygons) ==
    \E i \in 1..Len(polygons) :
        \E j \in 1..Len(RingPts(polygons[i][1])) :
            ~AssertHolds(RingPts(polygons[i][1])[j])

\* a variant of FeatureMesh that merges the new face in front
FeatureMeshFront(polygons, min_elevation_feature) ==
    LET F[i \in 0..Len(polygons)] ==
            IF i = 0 THEN << >>
            ELSE LET exterior == polygons[i][1]
                 IN  IF IsWall(exterior) THEN F[i - 1]
                     ELSE IF IsFootprint(exterior, min_elevation_feature)
                          THEN F[i - 1]
                     ELSE << exterior >> \o F[i - 1]
    IN  F[Len(polygons)]

\* lines 262-308: feature_mesh as the sequence of its faces, one per ring
FeatureMesh(polygons, min_elevation_feature) ==
    LET F[i \in 0..Len(polygons)] ==
            IF i = 0 THEN << >>
            ELSE LET exterior == polygons[i][1]
                 IN  IF IsWall(exterior) THEN F[i - 1]
                     ELSE IF IsFootprint(exterior, min_elevation_feature)
                          THEN F[i - 1]
                     ELSE IF F[i - 1] = << >> THEN << exterior >>
                     ELSE F[i - 1] \o << exterior >>
    IN  F[Len(polygons)]

\* lines 311-314
BuildingId(f, counter) ==
    IF Truthy(GetOpt(f.properties, "EntityHand"))
    THEN f.properties["EntityHand"]
    ELSE "building_" \o ToString(counter)

\* a variant of NextCounter that counts every mesh
NextCounterEvery(f, counter) == counter + 1

NextCounter(f, counter) ==
    IF Truthy(GetOpt(f.properties, "EntityHand")) THEN counter ELSE counter + 1

\* lines 262-318: the mesh with its user_dict
Building(f, counter) ==
    LET polygons == MaskedPolygons(f)
    IN  [ faces |-> FeatureMesh(polygons, MinElevationFeature(polygons)),
          id    |-> BuildingId(f, counter),
          layer |-> Get(f.properties, "Layer", "unknown") ]

\* lines 326-329; StoreWithFaces is a variant that leaves out a mesh
\* without faces
Keys(lut) == { lut[i].layer : i \in 1..Len(lut) }

StoreWithFaces(lut, key, mesh) ==
    IF mesh.faces = << >> THEN lut
    ELSE IF key \in Keys(lut)
    THEN [i \in 1..Len(lut) |->
            IF lut[i].layer = key
            THEN [lut[i] EXCEPT !.meshes = Append(@, mesh)]
            ELSE lut[i]]
    ELSE Append(lut, [layer |-> key, meshes |-> << mesh >>])

\* a variant of Store that leaves out a mesh the list already holds
StoreUnique(lut, key, mesh) ==
    IF key \in Keys(lut)
    THEN [i \in 1..Len(lut) |->
            IF lut[i].layer = key
               /\ \A j \in 1..Len(lut[i].meshes) : lut[i].meshes[j] /= mesh
            THEN [lut[i] EXCEPT !.meshes = Append(@, mesh)]
            ELSE lut[i]]
    ELSE Append(lut, [layer |-> key, meshes |-> << mesh >>])

Store(lut, key, mesh) ==
    IF key \in Keys(lut)
    THEN [i \in 1..Len(lut) |->
            IF lut[i].layer = key
            THEN [lut[i] EXCEPT !.meshes = Append(@, mesh)]
            ELSE lut[i]]
    ELSE Append(lut, [layer |-> key, meshes |-> << mesh >>])

----------------------------------------------------------------------------
(* The table loop of render_content, app.py:84-103 *)

\* mesh.points[:, 2]
ZCoords(mesh) ==
    Flatten([i \in 1..Len(mesh.faces) |->
        [j \in 1..Len(RingPts(mesh.faces[i])) |-> RingPts(mesh.faces[i])[j][3]]])

SeqMax(s) == CHOOSE v \in { s[i] : i \in 1..Len(s) } : \A i \in 1..Len(s) : v >= s[i]

\* z_coords.any(): some coordinate is not 0
AnyZ(mesh) == \E i \in 1..Len(ZCoords(mesh)) : ZCoords(mesh)[i] /= 0

MinHeight(mesh) ==
    IF AnyZ(mesh) THEN Some(SeqMin(ZCoords(mesh), ZCoords(mesh)[1])) ELSE NoneVal

MaxHeight(mesh) ==
    IF AnyZ(mesh) THEN Some(SeqMax(ZCoords(mesh))) ELSE NoneVal

Row(mesh) ==
    [ EntityHand |-> mesh.id,
      layer      |-> mesh.layer,
      min_height |-> MinHeight(mesh),
      max_height |-> MaxHeight(mesh) ]

\* result.items() and their meshes, in the order of the two for loops
ResultMeshes == Flatten([i \in 1..Len(layer_lut) |-> layer_lut[i].meshes])

----------------------------------------------------------------------------
(* The state machine *)

NoFeatureYet == [outcome |-> "none"]

\* what one loop iteration did: the feature, how the iteration ended, the
\* number of poly.within calls it made, the polygons it extracted and the
\* minimum elevation it computed
Note(f, outcome, tests, polygons, min_elevation) ==
    [ outcome |-> outcome, feature |-> f, within_tests |-> tests,
      polygons |-> polygons, min_elevation |-> min_elevation ]

WithinTests(f) ==
    IF mask /= "None" THEN Len(TestedPolygons(Polygons(f.geometry))) ELSE 0

ReachesBounds(f) == ~NotSelected(f) /\ ~UnsupportedGeometry(f)
ReachesMask(f) == ReachesBounds(f) /\ ~OutsideBounds(f)
ReachesMesh(f) == ReachesMask(f) /\ ~NotInsideMask(f)

Init ==
    /\ \E call \in Calls :
          /\ mask = call.mask
          /\ layer_types = call.layer_types
          /\ entity_handles = call.entity_handles
    /\ pc = "app"
    /\ tiles_done = 0
    /\ seen = 0
    /\ building_counter = 0
    /\ skip_count = 0
    /\ layer_lut = << >>
    /\ traufen = << >>
    /\ all_meshes = << >>
    /\ row_cursor = 0
    /\ emitted = << >>
    /\ last = NoFeatureYet

\* app.py:81-82 and swissbuildings3d_etl.py:167-186: the next tile is
\* handed to process_buildings_from_zips
CallProcess ==
    /\ pc = "app"
    /\ tiles_done < MaxTiles
    /\ pc' = "proc"
    /\ building_counter' = 0
    /\ skip_count' = 0
    /\ layer_lut' = << >>
    /\ emitted' = << >>
    /\ last' = NoFeatureYet
    /\ UNCHANGED << mask, layer_types, entity_handles, tiles_done, seen,
                    traufen, all_meshes, row_cursor >>

\* lines 195-200: continue
FeatureNotSelected(f) ==
    /\ pc = "proc" /\ seen < MaxFeatures
    /\ NotSelected(f)
    /\ seen' = seen + 1
    /\ last' = Note(f, "not_selected", 0, << >>, NoneVal)
    /\ UNCHANGED << mask, layer_types, entity_handles, pc, tiles_done,
                    building_counter, skip_count, layer_lut, traufen,
                    all_meshes, row_cursor, emitted >>

\* lines 202-208: continue
FeatureUnsupported(f) ==
    /\ pc = "proc" /\ seen < MaxFeatures
    /\ ~NotSelected(f)
    /\ UnsupportedGeometry(f)
    /\ seen' = seen + 1
    /\ last' = Note(f, "unsupported", 0, << >>, NoneVal)
    /\ UNCHANGED << mask, layer_types, entity_handles, pc, tiles_done,
                    building_counter, skip_count, layer_lut, traufen,
                    all_meshes, row_cursor, emitted >>

\* lines 210-223: skip_count += 1; continue
FeatureOutsideBounds(f) ==
    /\ pc = "proc" /\ seen < MaxFeatures
    /\ ReachesBounds(f)
    /\ OutsideBounds(f)
    /\ seen' = seen + 1
    /\ skip_count' = skip_count + 1
    /\ last' = Note(f, "outside_bounds", 0, << >>, NoneVal)
    /\ UNCHANGED << mask, layer_types, entity_handles, pc, tiles_done,
                    building_counter, layer_lut, traufen, all_meshes,
                    row_cursor, emitted >>

\* lines 225-253: continue
FeatureNotInsideMask(f) ==
    /\ pc = "proc" /\ seen < MaxFeatures
    /\ ReachesMask(f)
    /\ NotInsideMask(f)
    /\ seen' = seen + 1
    /\ last' = Note(f, "not_inside", WithinTests(f), Polygons(f.geometry), NoneVal)
    /\ UNCHANGED << mask, layer_types, entity_handles, pc, tiles_done,
                    building_counter, skip_count, layer_lut, traufen,
                    all_meshes, row_cursor, emitted >>

\* line 276: the AssertionError leaves the function and ends the script run
FeatureAssertionError(f) ==
    /\ pc = "proc" /\ seen < MaxFeatures
    /\ ReachesMesh(f)
    /\ AssertionFails(MaskedPolygons(f))
    /\ seen' = seen + 1
    /\ pc' = "aborted"
    /\ last' = Note(f, "assertion", WithinTests(f), Polygons(f.geometry),
                    Some(MinElevationFeature(MaskedPolygons(f))))
    /\ UNCHANGED << mask, layer_types, entity_handles, tiles_done,
                    building_counter, skip_count, layer_lut, traufen,
                    all_meshes, row_cursor, emitted >>

\* lines 225-329: the feature becomes a mesh of layer_lut
FeatureEmitted(f) ==
    /\ pc = "proc" /\ seen < MaxFeatures
    /\ ReachesMesh(f)
    /\ ~AssertionFails(MaskedPolygons(f))
    /\ seen' = seen + 1
    /\ layer_lut' = Store(layer_lut, FeatureLayerType(f), Building(f, building_counter))
    /\ building_counter' = NextCounter(f, building_counter)
    /\ emitted' = Append(emitted, [feature |-> f,
                                   mesh |-> Building(f, building_counter)])
    /\ last' = Note(f, "emitted", WithinTests(f), Polygons(f.geometry),
                    Some(MinElevationFeature(MaskedPolygons(f))))
    /\ UNCHANGED << mask, layer_types, entity_handles, pc, tiles_done,
                    skip_count, traufen, all_meshes, row_cursor >>

\* lines 331-340: the feature source is exhausted, layer_lut is returned
ReturnResult ==
    /\ pc = "proc"
    /\ pc' = "rows"
    /\ row_cursor' = 0
    /\ UNCHANGED << mask, layer_types, entity_handles, tiles_done, seen,
                    building_counter, skip_count, layer_lut, traufen,
                    all_meshes, emitted, last >>

\* app.py:84-103: one mesh of the result becomes a row of traufen
AppendRow ==
    /\ pc = "rows"
    /\ row_cursor < Len(ResultMeshes)
    /\ all_meshes' = Append(all_meshes, ResultMeshes[row_cursor + 1])
    /\ traufen' = Append(traufen, Row(ResultMeshes[row_cursor + 1]))
    /\ row_cursor' = row_cursor + 1
    /\ UNCHANGED << mask, layer_types, entity_handles, pc, tiles_done, seen,
                    building_counter, skip_count, layer_lut, emitted, last >>

\* app.py:81: the for loop goes on to the next tile
NextFile ==
    /\ pc = "rows"
    /\ row_cursor = Len(ResultMeshes)
    /\ pc' = "app"
    /\ tiles_done' = tiles_done + 1
    /\ UNCHANGED << mask, layer_types, entity_handles, seen, building_counter,
                    skip_count, layer_lut, traufen, all_meshes, row_cursor,
                    emitted, last >>

\* app.py:70-72 and 105-109: no tile or no mesh stops the script with an
\* error message, otherwise the table is written
Finish ==
    /\ pc = "app"
    /\ pc' = IF tiles_done = 0 \/ all_meshes = << >> THEN "stopped" ELSE "done"
    /\ UNCHANGED << mask, layer_types, entity_handles, tiles_done, seen,
                    building_counter, skip_count, layer_lut, traufen,
                    all_meshes, row_cursor, emitted, last >>

Next ==
    \/ CallProcess
    \/ \E f \in Features : FeatureNotSelected(f)
    \/ \E f \in Features : FeatureUnsupported(f)
    \/ \E f \in Features : FeatureOutsideBounds(f)
    \/ \E f \in Features : FeatureNotInsideMask(f)
    \/ \E f \in Features : FeatureAssertionError(f)
    \/ \E f \in Features : FeatureEmitted(f)
    \/ ReturnResult
    \/ AppendRow
    \/ NextFile
    \/ Finish

Spec == Init /\ [][Next]_vars

----------------------------------------------------------------------------
(* Vocabulary of the properties *)

\* a loop iteration has consumed a feature in this step
Processed == seen' = seen + 1

\* the step has put a mesh into the result
Emits == emitted' /= emitted

\* the step has left the result as it was
EmitsNothing == emitted' = emitted /\ layer_lut' = layer_lut

\* the rings of a feature: the exterior of each of its polygons
Rings(f) ==
    IF f.geometry.type \in { "Polygon", "MultiPolygon", "GeometryCollection" }
    THEN [i \in 1..Len(Polygons(f.geometry)) |-> Polygons(f.geometry)[i][1]]
    ELSE << >>

RingSet(f) == { Rings(f)[i] : i \in 1..Len(Rings(f)) }

\* the ring lies in the region: all its points do (the region is convex)
Contained(r) ==
    \A i \in 1..Len(RingPts(r)) :
        /\ RingPts(r)[i][1] >= 0 /\ RingPts(r)[i][1] <= 1000
        /\ RingPts(r)[i][2] >= 0 /\ RingPts(r)[i][2] <= 1000

\* the mesh of the feature of the last iteration
LastMesh == emitted[Len(emitted)].mesh

FaceSet(mesh) == { mesh.faces[i] : i \in 1..Len(mesh.faces) }

----------------------------------------------------------------------------
(* C1 *)

\* C1 as stated: with a region supplied, a feature that becomes a mesh has
\* every ring inside the region, and a feature with a ring that is not
\* inside the region leaves no mesh.
C1_AllRingsContained ==
    [][ (Processed /\ mask /= "None") =>
            LET f == last'.feature
            IN  /\ Emits => \A r \in RingSet(f) : Contained(r) /\ mask = "Rect"
                /\ (\E r \in RingSet(f) : ~(Contained(r) /\ mask = "Rect"))
                       => EmitsNothing ]_vars

\* C1 amended: with a region supplied, a feature becomes a mesh only if it
\* has a ring whose 2D polygon is valid and every such valid ring is inside
\* the region; a valid ring that is not inside drops the whole feature.
\* Rings whose 2D polygon is invalid are not tested.
C1_ValidRingsContained ==
    [][ (Processed /\ mask /= "None") =>
            LET f == last'.feature
                valid == { r \in RingSet(f) : IsValid(r) }
            IN  /\ Emits => /\ valid /= { }
                            /\ \A r \in valid : Contained(r) /\ mask = "Rect"
                /\ (\E r \in valid : ~(Contained(r) /\ mask = "Rect"))
                       => EmitsNothing ]_vars

\* a building with one ring inside and one ring across the border has been
\* dropped as a whole
C1_Witness ==
    /\ mask = "Rect"
    /\ last.outcome = "not_inside"
    /\ \E r \in RingSet(last.feature) : IsValid(r) /\ Contained(r)
    /\ \E r \in RingSet(last.feature) : IsValid(r) /\ ~Contained(r)
    /\ emitted = << >>

----------------------------------------------------------------------------
(* C2 *)

\* the bounding box of the feature and that of the region are disjoint on
\* the x axis or on the y axis
BoxesDisjoint(f) ==
    LET b == Bounds(f.geometry)
    IN  b[3] < 0 \/ b[1] > 1000 \/ b[4] < 0 \/ b[2] > 1000

\* C2 as stated: every feature whose bounding box does not overlap that of
\* the region adds exactly 1 to the skip counter, runs no containment test
\* and leaves no mesh.
C2_EveryDisjointFeatureCounted ==
    [][ (Processed /\ mask = "Rect" /\ BoxesDisjoint(last'.feature)) =>
            /\ skip_count' = skip_count + 1
            /\ last'.within_tests = 0
            /\ EmitsNothing ]_vars

\* the feature is not removed by the layer or handle selection and its
\* geometry is of a supported kind
ReachesFilter(f) ==
    /\ layer_types = << >> \/ Get(f.properties, "Layer", "n/a") = layer_types[1]
    /\ entity_handles = << >>
          \/ GetOpt(f.properties, "EntityHand") = Some(entity_handles[1])
    /\ f.geometry.type \in { "Polygon", "MultiPolygon", "GeometryCollection" }

\* C2 amended: every feature of a supported geometry kind that the layer and
\* handle selection lets through and whose bounding box does not overlap
\* that of the region adds exactly 1 to the skip counter, runs no
\* containment test and leaves no mesh.
C2_DisjointFeatureCounted ==
    [][ (Processed /\ mask = "Rect" /\ ReachesFilter(last'.feature)
            /\ BoxesDisjoint(last'.feature)) =>
            /\ skip_count' = skip_count + 1
            /\ last'.within_tests = 0
            /\ last'.outcome = "outside_bounds"
            /\ EmitsNothing ]_vars

\* a polygon feature far from the region has been counted
C2_Witness ==
    /\ mask = "Rect"
    /\ last.outcome = "outside_bounds"
    /\ BoxesDisjoint(last.feature)
    /\ skip_count = 1
    /\ emitted = << >>

----------------------------------------------------------------------------
(* C3 *)

\* the absolute z component of the unit normal is below 0.1
NormalZBelowTenth(r) ==
    LET n == FaceNormal(r)
    IN  n = << 0, 0, 0 >> \/ 100 * (n[3] * n[3]) < NormSq(n)

\* the rings of the feature that reach the classification
ClassifiedRings(f) ==
    IF mask = "None" THEN RingSet(f) ELSE { r \in RingSet(f) : IsValid(r) }

\* C3: a ring of an emitted feature whose face normal has |z| < 0.1 is not a
\* face of the building mesh, whatever its elevations are.
C3_WallsDiscarded ==
    last.outcome = "emitted" =>
        \A r \in ClassifiedRings(last.feature) :
            NormalZBelowTenth(r) => r \notin FaceSet(LastMesh)

\* a mesh was built from a feature with a near-vertical ring above ground
C3_Witness ==
    /\ last.outcome = "emitted"
    /\ \E r \in ClassifiedRings(last.feature) :
          /\ NormalZBelowTenth(r)
          /\ IsValid(r)
          /\ \E i \in 1..Len(RingPts(r)) : RingPts(r)[i][3] > 10
    /\ LastMesh.faces /= << >>

----------------------------------------------------------------------------
(* C4 *)

\* the absolute z component of the unit normal is above 0.95
NormalZAbove95(r) ==
    LET n == FaceNormal(r)
    IN  n /= << 0, 0, 0 >> /\ 400 * (n[3] * n[3]) > 361 * NormSq(n)

\* every point of the ring is less than 10 cm from the elevation m
AllWithin10cm(r, m) ==
    \A i \in 1..Len(RingPts(r)) :
        RingPts(r)[i][3] - m < 10 /\ m - RingPts(r)[i][3] < 10

\* C4: with m the minimum elevation the loop computed for the feature, a
\* ring with |normal z| > 0.95 and every point less than 0.10 m from m is
\* not a face of the mesh, and such a near-horizontal ring with a point at
\* m + 0.11 m is not discarded.
C4_FootprintsDiscarded ==
    last.outcome = "emitted" =>
        LET m == last.min_elevation[1]
        IN  \A r \in ClassifiedRings(last.feature) :
              /\ (NormalZAbove95(r) /\ AllWithin10cm(r, m))
                    => r \notin FaceSet(LastMesh)
              /\ (NormalZAbove95(r)
                    /\ \E i \in 1..Len(RingPts(r)) : RingPts(r)[i][3] = m + 11)
                    => r \in FaceSet(LastMesh)

\* one feature has lost a ground face and kept a face with a point 11 cm
\* above the minimum
C4_Witness ==
    /\ last.outcome = "emitted"
    /\ \E r \in ClassifiedRings(last.feature) :
          /\ NormalZAbove95(r) /\ AllWithin10cm(r, last.min_elevation[1])
          /\ r \notin FaceSet(LastMesh)
    /\ \E r \in ClassifiedRings(last.feature) :
          /\ NormalZAbove95(r)
          /\ \E i \in 1..Len(RingPts(r)) :
                RingPts(r)[i][3] = last.min_elevation[1] + 11
          /\ r \in FaceSet(LastMesh)

----------------------------------------------------------------------------
(* C5 *)

\* the elevations of all points of all rings of the feature
Elevations(f) ==
    UNION { { RingPts(r)[i][3] : i \in 1..Len(RingPts(r)) } : r \in RingSet(f) }

\* C5: the minimum elevation used for a feature that reaches the
\* classification is the least z of all points of all its rings.
C5_MinOverAllRings ==
    last.outcome \in { "emitted", "assertion" } =>
        /\ last.min_elevation[1] \in Elevations(last.feature)
        /\ \A z \in Elevations(last.feature) : last.min_elevation[1] <= z

----------------------------------------------------------------------------
(* C6 *)

\* the rings of s, in order, that are neither wall nor footprint for the
\* minimum elevation m
RoofRings(s, m) ==
    SelectSeq(s, LAMBDA r :
        ~NormalZBelowTenth(r) /\ ~(NormalZAbove95(r) /\ AllWithin10cm(r, m)))

\* C6 as stated: the faces of the mesh are the rings of the feature that are
\* neither walls nor footprints, in ring order.
C6_FacesAreAllRoofRings ==
    last.outcome = "emitted" =>
        LastMesh.faces = RoofRings(Rings(last.feature), last.min_elevation[1])

\* the rings that reach the classification, in order: all rings without a
\* region, the rings with a valid 2D polygon with a region
ClassifiedRingSeq(f) ==
    IF mask = "None" THEN Rings(f) ELSE SelectSeq(Rings(f), IsValid)

\* C6 amended: the faces of the mesh are, in ring order and one face per
\* ring, the rings of the feature that reach the classification (with a
\* region: the rings whose 2D polygon is valid) and are neither walls nor
\* footprints; the prism of a sloped, a wall and a ground face keeps exactly
\* the sloped face.
C6_FacesAreClassifiedRoofRings ==
    last.outcome = "emitted" =>
        /\ LastMesh.faces =
              RoofRings(ClassifiedRingSeq(last.feature), last.min_elevation[1])
        /\ Rings(last.feature) = << "sloped", "wall", "ground" >>
              => LastMesh.faces = << "sloped" >>

\* the prism has become a mesh of one face
C6_Witness ==
    /\ last.outcome = "emitted"
    /\ Rings(last.feature) = << "sloped", "wall", "ground" >>
    /\ Len(LastMesh.faces) = 1
    /\ FaceNormal("sloped")[3] * FaceNormal("sloped")[3] * 25 = 9 * NormSq(FaceNormal("sloped"))
    /\ FaceNormal("wall")[3] * FaceNormal("wall")[3] * 2500 < NormSq(FaceNormal("wall"))

----------------------------------------------------------------------------
(* C7 *)

\* the rings the extraction has to give for a geometry
RECURSIVE ExpectedRings(_)
ExpectedRings(g) ==
    CASE g.type = "Polygon" -> << g.coordinates[1] >>
      [] g.type = "MultiPolygon" ->
            IF g.coordinates = << >> THEN << >>
            ELSE << g.coordinates[1][1] >>
                 \o ExpectedRings(MultiPolygon(Tail(g.coordinates)))
      [] g.type = "GeometryCollection" ->
            IF g.geometries = << >> THEN << >>
            ELSE ExpectedRings(Head(g.geometries))
                 \o ExpectedRings(GeometryCollection(Tail(g.geometries)))
      [] OTHER -> << >>

\* C7: the polygons extracted from a geometry are, in order, one per Polygon
\* (its exterior first, holes not counted as rings), one per member of a
\* MultiPolygon, and for a GeometryCollection those of its Polygon and
\* MultiPolygon members.
C7_RingExtraction ==
    last.outcome \in { "not_inside", "assertion", "emitted" } =>
        /\ Len(last.polygons) = Len(ExpectedRings(last.feature.geometry))
        /\ \A i \in 1..Len(last.polygons) :
              last.polygons[i][1] = ExpectedRings(last.feature.geometry)[i]

\* a collection of a polygon with a hole, a multipolygon of two and a line
\* has given 3 rings
C7_Witness ==
    /\ last.outcome = "emitted"
    /\ last.feature.geometry.type = "GeometryCollection"
    /\ Len(last.feature.geometry.geometries) = 3
    /\ Len(last.feature.geometry.geometries[1].coordinates) = 2
    /\ Len(last.feature.geometry.geometries[2].coordinates) = 2
    /\ Len(last.polygons) = 3

----------------------------------------------------------------------------
(* C8 *)

\* the feature gets through the selection, the bounding box test and the
\* containment test, and none of its points is degenerate
PassesSpatialFilter(f) ==
    /\ ReachesFilter(f)
    /\ mask = "Rect" => ~BoxesDisjoint(f)
    /\ mask /= "None" =>
          /\ \E r \in RingSet(f) : IsValid(r)
          /\ \A r \in RingSet(f) : IsValid(r) => (Contained(r) /\ mask = "Rect")
    /\ \A r \in ClassifiedRings(f) : \A i \in 1..Len(RingPts(r)) :
          Abs(RingPts(r)[i][1]) + Abs(RingPts(r)[i][2]) + Abs(RingPts(r)[i][3]) > 100

\* the label under which the feature is grouped
Category(f) ==
    IF "Layer" \in DOMAIN f.properties THEN f.properties.Layer ELSE "n/a"

MeshCount(lut) == Len(Flatten([i \in 1..Len(lut) |-> lut[i].meshes]))

\* C8: a feature that passes the spatial filter becomes exactly one mesh;
\* when the classification discards all its faces the mesh has no geometry
\* and is the new last entry of the list of its category, and the row the
\* table gets for a mesh without faces has neither eave nor ridge height.
C8_EmptyMeshEmitted ==
    [][ /\ (Processed /\ PassesSpatialFilter(last'.feature)) =>
              /\ last'.outcome = "emitted"
              /\ Len(emitted') = Len(emitted) + 1
              /\ MeshCount(layer_lut') = MeshCount(layer_lut) + 1
              /\ LET f == last'.feature
                     mesh == emitted'[Len(emitted')].mesh
                     m == last'.min_elevation[1]
                 IN  (\A r \in ClassifiedRings(f) :
                         \/ NormalZBelowTenth(r)
                         \/ NormalZAbove95(r) /\ AllWithin10cm(r, m))
                     => /\ mesh.faces = << >>
                        /\ \E i \in 1..Len(layer_lut') :
                              /\ layer_lut'[i].layer = Category(f)
                              /\ layer_lut'[i].meshes[Len(layer_lut'[i].meshes)] = mesh
        /\ traufen' /= traufen =>
              /\ Len(traufen') = Len(traufen) + 1
              /\ Len(all_meshes') = Len(traufen')
              /\ all_meshes'[Len(all_meshes')].faces = << >> =>
                    /\ traufen'[Len(traufen')].min_height = NoneVal
                    /\ traufen'[Len(traufen')].max_height = NoneVal ]_vars

\* a feature of one ground face has become a mesh without faces and a row
\* without heights
C8_Witness ==
    \E i \in 1..Len(traufen) :
        /\ all_meshes[i].faces = << >>
        /\ traufen[i].min_height = NoneVal
        /\ traufen[i].max_height = NoneVal
        /\ \E j \in 1..Len(emitted) :
              /\ emitted[j].mesh = all_meshes[i]
              /\ Rings(emitted[j].feature) /= << >>
        /\ \E k \in 1..Len(layer_lut) : all_meshes[i] \in
              { layer_lut[k].meshes[n] : n \in 1..Len(layer_lut[k].meshes) }

----------------------------------------------------------------------------
(* C9 *)

MeshElevations(mesh) ==
    UNION { { RingPts(r)[i][3] : i \in 1..Len(RingPts(r)) } : r \in FaceSet(mesh) }

\* C9: the row of a mesh with a face reports the least and the greatest
\* elevation of the points of its faces, whatever the elevations are; the
\* heights are absent only for a mesh without faces.
C9_HeightsAreMinMax ==
    \A i \in 1..Len(traufen) :
        LET zs == MeshElevations(all_meshes[i])
        IN  IF all_meshes[i].faces = << >>
            THEN traufen[i].min_height = NoneVal /\ traufen[i].max_height = NoneVal
            ELSE /\ traufen[i].min_height /= NoneVal
                 /\ traufen[i].max_height /= NoneVal
                 /\ traufen[i].min_height[1] \in zs
                 /\ traufen[i].max_height[1] \in zs
                 /\ \A z \in zs : traufen[i].min_height[1] <= z
                                  /\ z <= traufen[i].max_height[1]

----------------------------------------------------------------------------
(* C10 *)

\* the feature supplies no identifier
Anonymous(f) ==
    "EntityHand" \notin DOMAIN f.properties \/ f.properties.EntityHand = ""

\* C10: within one call, the mesh of a feature with an identifier carries
\* that identifier, and the mesh of the k-th emitted feature without one
\* (counting from 0) carries building_k.
C10_Identifiers ==
    [][ (Processed /\ Emits) =>
            LET f == last'.feature
                mesh == emitted'[Len(emitted')].mesh
                k == Cardinality({ j \in 1..Len(emitted) : Anonymous(emitted[j].feature) })
            IN  /\ emitted'[Len(emitted')].feature = f
                /\ IF Anonymous(f)
                   THEN mesh.id = "building_" \o ToString(k)
                   ELSE mesh.id = f.properties.EntityHand ]_vars

\* two features without identifier have become building_0 and building_1
C10_Witness ==
    /\ Len(emitted) = 2
    /\ Anonymous(emitted[1].feature) /\ Anonymous(emitted[2].feature)
    /\ emitted[1].mesh.id = "building_0"
    /\ emitted[2].mesh.id = "building_1"

----------------------------------------------------------------------------
(* C11 *)

\* the feature supplies an identifier of its own
Supplies(f) ==
    "EntityHand" \in DOMAIN f.properties /\ f.properties.EntityHand /= ""

\* C11: no two meshes of a run carry the same identifier, also when some
\* features supply an identifier and others get a synthetic one. Stated for
\* the meshes of one call whose features supply pairwise different
\* identifiers.
C11_IdentifiersUnique ==
    (\A i, j \in 1..Len(emitted) :
        (i < j /\ Supplies(emitted[i].feature) /\ Supplies(emitted[j].feature))
            => emitted[i].feature.properties.EntityHand
                  /= emitted[j].feature.properties.EntityHand)
    => \A i, j \in 1..Len(emitted) :
          i < j => emitted[i].mesh.id /= emitted[j].mesh.id

----------------------------------------------------------------------------
(* C12 *)

\* some point of some ring of the feature has |x| + |y| + |z| <= 1 m
HasDegeneratePoint(f) ==
    \E r \in RingSet(f) : \E i \in 1..Len(RingPts(r)) :
        Abs(RingPts(r)[i][1]) + Abs(RingPts(r)[i][2]) + Abs(RingPts(r)[i][3]) <= 100

\* C12: a feature with a degenerate point is skipped: it leaves no mesh and
\* the feature loop goes on with the features that follow.
C12_DegenerateFeatureSkipped ==
    [][ (Processed /\ HasDegeneratePoint(last'.feature)) =>
            /\ EmitsNothing
            /\ pc' = "proc" ]_vars

----------------------------------------------------------------------------
(* C13 *)

\* C13: with an empty region no feature is read, filtered or emitted.
C13_EmptyRegionFailsFast ==
    mask = "Empty" =>
        /\ seen = 0
        /\ last.outcome = "none"
        /\ emitted = << >>

----------------------------------------------------------------------------
(* C14 *)

\* the feature reaches the containment test
ReachesContainment(f) ==
    /\ ReachesFilter(f)
    /\ mask = "Rect" => ~BoxesDisjoint(f)

\* no point of a valid ring of the feature is degenerate
ValidRingsSound(f) ==
    \A r \in RingSet(f) : IsValid(r) =>
        \A i \in 1..Len(RingPts(r)) :
            Abs(RingPts(r)[i][1]) + Abs(RingPts(r)[i][2]) + Abs(RingPts(r)[i][3]) > 100

\* C14: with a region, a ring whose 2D polygon is invalid does not by itself
\* fail the feature: a feature with a valid ring, all of whose valid rings
\* are inside the region, becomes a mesh that is built from its valid rings
\* only; a feature with a valid ring that is not inside the region is
\* dropped, with or without invalid rings.
C14_InvalidRingLeftOut ==
    [][ (Processed /\ mask /= "None" /\ ReachesContainment(last'.feature)) =>
            LET f == last'.feature
                valid == { r \in RingSet(f) : IsValid(r) }
                inside(r) == Contained(r) /\ mask = "Rect"
            IN  IF \E r \in valid : ~inside(r) THEN EmitsNothing
                ELSE (valid /= { } /\ ValidRingsSound(f))
                        => /\ last'.outcome = "emitted"
                           /\ Len(emitted') = Len(emitted) + 1
                           /\ emitted'[Len(emitted')].mesh.faces
                                 = RoofRings(SelectSeq(Rings(f), IsValid),
                                             last'.min_elevation[1]) ]_vars

\* a building with a self-intersecting ring inside the region has become a
\* mesh with faces, none of them the self-intersecting ring
C14_Witness ==
    /\ mask = "Rect"
    /\ last.outcome = "emitted"
    /\ \E r \in RingSet(last.feature) : ~IsValid(r) /\ Contained(r)
    /\ LastMesh.faces /= << >>
    /\ \A r \in FaceSet(LastMesh) : IsValid(r)

----------------------------------------------------------------------------
(* C15 *)

\* the meshes of the features of category k, in processing order
MeshesOf(k) ==
    LET of_k == SelectSeq(emitted, LAMBDA e : Category(e.feature) = k)
    IN  [i \in 1..Len(of_k) |-> of_k[i].mesh]

\* C15: after any sequence of features the mapping has one list per category
\* label met so far, and the list of a category holds the meshes of the
\* features of that category, each of them once per feature (equal meshes
\* are kept) and in processing order; so every mesh is in exactly one list.
C15_GroupedInProcessingOrder ==
    /\ \A i, j \in 1..Len(layer_lut) :
          i /= j => layer_lut[i].layer /= layer_lut[j].layer
    /\ \A i \in 1..Len(layer_lut) :
          layer_lut[i].meshes = MeshesOf(layer_lut[i].layer)
    /\ \A n \in 1..Len(emitted) : Category(emitted[n].feature) \in Keys(layer_lut)
    /\ MeshCount(layer_lut) = Len(emitted)

\* two different meshes of one category are in its list, the earlier feature
\* first
C15_Witness ==
    /\ Len(emitted) = 2
    /\ emitted[1].mesh /= emitted[2].mesh
    /\ \E i \in 1..Len(layer_lut) :
          layer_lut[i].meshes = << emitted[1].mesh, emitted[2].mesh >>

----------------------------------------------------------------------------
(* C16 *)

\* the layer and handle selection lets the feature through
Selected(f) ==
    /\ layer_types = << >> \/ Get(f.properties, "Layer", "n/a") = layer_types[1]
    /\ entity_handles = << >>
          \/ GetOpt(f.properties, "EntityHand") = Some(entity_handles[1])

\* C16: a feature whose geometry is neither Polygon, MultiPolygon nor
\* GeometryCollection leaves no mesh, the feature loop goes on, and the skip
\* adds 1 to the count of skipped features that the run reports.
C16_UnsupportedKindCounted ==
    [][ ( /\ Processed
          /\ Selected(last'.feature)
          /\ last'.feature.geometry.type
                \notin { "Polygon", "MultiPolygon", "GeometryCollection" } )
            => /\ EmitsNothing
               /\ pc' = "proc"
               /\ skip_count' = skip_count + 1 ]_vars

----------------------------------------------------------------------------
(* C17 *)

\* C17: every mesh stored under a category key carries that key as its own
\* category tag, also for a feature without a Layer attribute.
C17_TagEqualsKey ==
    \A i \in 1..Len(layer_lut) :
        \A j \in 1..Len(layer_lut[i].meshes) :
            layer_lut[i].meshes[j].layer = layer_lut[i].layer

====
